---- MODULE Spec2Model ----
(***************************************************************************)
(* Idempotent producer: acquisition and lifecycle of the Producer ID.      *)
(* Model of src/src/rdkafka_idempotence.c.                                 *)
(*                                                                         *)
(* The rdkafka main thread ("main") drives every transition.  Each handler *)
(* is a sequence of steps of that thread, cut where the code releases the  *)
(* write lock or calls out (timer, transport, broker wakeup); pc["main"]   *)
(* is the thread's position.  A second thread ("racer") that may call      *)
(* rd_kafka_idemp_request_pid concurrently exists only in SpecRace: the    *)
(* code asserts thrd_is_current(rk->rk_thread), which a build with NDEBUG  *)
(* drops, and then the write lock alone keeps two callers apart.           *)
(***************************************************************************)
EXTENDS Integers, FiniteSets, TLC

\* Largest reading of rd_clock() the model distinguishes.
MaxClock == 2

\* Largest producer id a broker hands out in the model.
MaxId == 1

NULL == "NULL"

Brokers == {"b1", "b2"}

Threads == {"main", "racer"}

\* Producer ids a response may carry: -1 is the unset id, the rest are valid.
PidIds == -1 .. MaxId

Epochs == {0, 1}

Pids == [id : PidIds, epoch : Epochs]

\* rd_kafka_idemp_state_t
IdempStates == {"INIT", "REQ_PID", "WAIT_PID", "ASSIGNED", "TERM"}

ERR__DESTROY == "RD_KAFKA_RESP_ERR__DESTROY"

ERR__BAD_MSG == "RD_KAFKA_RESP_ERR__BAD_MSG"

ERR__TRANSPORT == "RD_KAFKA_RESP_ERR__TRANSPORT"

NO_ERROR == "RD_KAFKA_RESP_ERR_NO_ERROR"

\* Errors the transport may report for a request.
TransportErrs == {ERR__DESTROY, ERR__TRANSPORT}

VARIABLES
    idemp_state,      \* rk->rk_eos.idemp_state
    pid,              \* rk->rk_eos.pid
    ts_idemp_state,   \* rk->rk_eos.ts_idemp_state
    request_pid_tmr,  \* number of scheduled instances of rk_eos.request_pid_tmr
    wrlock,           \* holder of rd_kafka_wrlock(rk): "none" or a thread
    pc,               \* position of each thread
    rkb,              \* request_pid's rkb (parameter, then resolved broker)
    ret,              \* what the thread's last handler returned (-1: nothing)
    arg_pid,          \* pid_update's pid parameter
    arg_err,          \* request_pid_failed's err parameter
    refcnt,           \* reference count of each broker
    broker_state,     \* "UP" or "DOWN" per broker
    healthy,          \* brokers stay up, enqueuing succeeds, responses are valid
    outstanding,      \* InitProducerId requests enqueued and not yet answered
    woken,            \* wakeups each broker thread has received
    path,             \* history: the path the thread's last handler took
    term_calls,       \* history: calls of rd_kafka_idemp_term begun (up to 2)
    was_assigned,     \* history: the state has been ASSIGNED
    raced             \* history: the thread's last request_pid call ran while
                      \* the other thread was inside request_pid, and the
                      \* state was REQ_PID when the later of the two began

vars == <<idemp_state, pid, ts_idemp_state, request_pid_tmr, wrlock, pc, rkb,
          ret, arg_pid, arg_err, refcnt, broker_state, healthy, outstanding,
          woken, path, term_calls, was_assigned, raced>>

\* The fields of rk_eos that the lock protects.
eos == <<idemp_state, pid, ts_idemp_state>>

env == <<broker_state, healthy>>

hist == <<term_calls, was_assigned, raced>>

----------------------------------------------------------------------------
(* Helpers *)

rd_kafka_pid_valid(p) == p.id >= 0

rd_kafka_pid_reset == [id |-> -1, epoch |-> -1]

rd_kafka_idemp_need_pid_unless_assigned == idemp_state # "ASSIGNED"

rd_kafka_idemp_need_pid ==
    idemp_state = "REQ_PID" \/ idemp_state = "WAIT_PID"

\* rd_kafka_timer_start_oneshot on a timer with n scheduled instances: the
\* timer is stopped, then scheduled once.
rd_kafka_timer_start_oneshot(n) == 1

\* rd_kafka_timer_stop: the timer is unscheduled; a stopped timer is left alone.
rd_kafka_timer_stop(n) == 0

\* rd_kafka_broker_any_usable: the brokers it may return (none when empty).
rd_kafka_broker_any_usable == {b \in Brokers : broker_state[b] = "UP"}

\* Thread t's handler returns r along the path named p.
Return(t, r, p) ==
    /\ pc' = [pc EXCEPT ![t] = "idle"]
    /\ ret' = [ret EXCEPT ![t] = r]
    /\ path' = [path EXCEPT ![t] = p]

\* Thread t goes on inside its handler.
Continue(t, label) ==
    /\ pc' = [pc EXCEPT ![t] = label]
    /\ UNCHANGED <<ret, path>>

\* Thread t enters a handler at label.
Call(t, label) ==
    /\ pc' = [pc EXCEPT ![t] = label]
    /\ ret' = [ret EXCEPT ![t] = -1]
    /\ path' = [path EXCEPT ![t] = "running"]

----------------------------------------------------------------------------
(* rd_kafka_idemp_set_state *)

rd_kafka_idemp_set_state_always(new_state) ==
    /\ idemp_state' = new_state
    /\ \E c \in ts_idemp_state .. MaxClock : ts_idemp_state' = c

\* rd_clock() never goes back: the timestamp read is at least the last one.
rd_kafka_idemp_set_state(new_state) ==
    IF idemp_state = new_state
    THEN UNCHANGED <<idemp_state, ts_idemp_state>>
    ELSE /\ idemp_state' = new_state
         /\ \E c \in ts_idemp_state .. MaxClock : ts_idemp_state' = c

rd_kafka_idemp_restart_request_pid_tmr_add ==
    request_pid_tmr' = request_pid_tmr + 1

rd_kafka_idemp_restart_request_pid_tmr ==
    request_pid_tmr' = rd_kafka_timer_start_oneshot(request_pid_tmr)

----------------------------------------------------------------------------
(* rd_kafka_idemp_init *)

rd_kafka_idemp_init_locked_arms ==
    /\ pc["main"] = "init_lock"
    /\ wrlock = "none"
    /\ pid' = rd_kafka_pid_reset
    /\ rd_kafka_idemp_set_state("REQ_PID")
    /\ rd_kafka_idemp_restart_request_pid_tmr
    /\ Continue("main", "init_tmr")
    /\ UNCHANGED <<wrlock, rkb, arg_pid, arg_err, refcnt, outstanding, woken>>
    /\ UNCHANGED <<env, hist>>

\* Lines 271-278.
rd_kafka_idemp_init_locked ==
    /\ pc["main"] = "init_lock"
    /\ wrlock = "none"
    /\ pid' = rd_kafka_pid_reset
    /\ rd_kafka_idemp_set_state("REQ_PID")
    /\ Continue("main", "init_tmr")
    /\ UNCHANGED <<request_pid_tmr, wrlock, rkb, arg_pid, arg_err, refcnt,
                   outstanding, woken>>
    /\ UNCHANGED <<env, hist>>

\* Line 280.
rd_kafka_idemp_init_tmr ==
    /\ pc["main"] = "init_tmr"
    /\ rd_kafka_idemp_restart_request_pid_tmr
    /\ Return("main", -1, "init")
    /\ UNCHANGED <<eos, wrlock, rkb, arg_pid, arg_err, refcnt, outstanding,
                   woken>>
    /\ UNCHANGED <<env, hist>>

----------------------------------------------------------------------------
(* rd_kafka_idemp_request_pid, run by thread t *)

RequestPidMayProceed_unless_term == idemp_state # "TERM"

RequestPidMayProceed_not_waiting == idemp_state # "WAIT_PID"

\* Line 109: the request goes on only in state REQ_PID.
RequestPidMayProceed == idemp_state = "REQ_PID"

RequestPidStateMismatch_rearm(t) ==
    /\ rd_kafka_idemp_restart_request_pid_tmr
    /\ rkb' = [rkb EXCEPT ![t] = NULL]
    /\ Return(t, 0, "rp_mismatch")
    /\ UNCHANGED <<eos, wrlock, refcnt, outstanding>>

\* Lines 109-112: unlock and return 0.
RequestPidStateMismatch(t) ==
    /\ rkb' = [rkb EXCEPT ![t] = NULL]
    /\ Return(t, 0, "rp_mismatch")
    /\ UNCHANGED <<eos, request_pid_tmr, wrlock, refcnt, outstanding>>

\* Lines 114-126: resolve the broker under the lock.  Without a usable broker
\* the lock is released and the thread goes on to restart the timer; with one
\* the thread holds a reference and still holds the lock.
RequestPidResolve(t) ==
    IF rkb[t] = NULL
    THEN IF rd_kafka_broker_any_usable = {}
         THEN /\ Continue(t, "rp_nobroker")
              /\ UNCHANGED <<eos, request_pid_tmr, wrlock, rkb, refcnt,
                             outstanding>>
         ELSE \E b \in rd_kafka_broker_any_usable :
                /\ rkb' = [rkb EXCEPT ![t] = b]
                /\ refcnt' = [refcnt EXCEPT ![b] = @ + 1]
                /\ wrlock' = t
                /\ Continue(t, "rp_send")
                /\ UNCHANGED <<eos, request_pid_tmr, outstanding>>
    ELSE /\ refcnt' = [refcnt EXCEPT ![rkb[t]] = @ + 1]
         /\ wrlock' = t
         /\ Continue(t, "rp_send")
         /\ UNCHANGED <<eos, request_pid_tmr, rkb, outstanding>>

\* Lines 108-126.
rd_kafka_idemp_request_pid_lock(t) ==
    /\ pc[t] = "rp_lock"
    /\ wrlock = "none"
    /\ IF RequestPidMayProceed
       THEN RequestPidResolve(t)
       ELSE RequestPidStateMismatch(t)
    /\ UNCHANGED <<arg_pid, arg_err, woken>>
    /\ UNCHANGED <<env, hist>>

rd_kafka_idemp_request_pid_nobroker_no_rearm(t) ==
    /\ pc[t] = "rp_nobroker"
    /\ rkb' = [rkb EXCEPT ![t] = NULL]
    /\ Return(t, 0, "rp_nobroker")
    /\ UNCHANGED <<eos, request_pid_tmr, wrlock, arg_pid, arg_err, refcnt,
                   outstanding, woken>>
    /\ UNCHANGED <<env, hist>>

\* Lines 118-119: no usable broker.
rd_kafka_idemp_request_pid_nobroker(t) ==
    /\ pc[t] = "rp_nobroker"
    /\ rd_kafka_idemp_restart_request_pid_tmr
    /\ rkb' = [rkb EXCEPT ![t] = NULL]
    /\ Return(t, 0, "rp_nobroker")
    /\ UNCHANGED <<eos, wrlock, arg_pid, arg_err, refcnt, outstanding, woken>>
    /\ UNCHANGED <<env, hist>>

rd_kafka_idemp_request_pid_send_keeps_lock(t) ==
    /\ pc[t] = "rp_send"
    /\ wrlock = t
    /\ \/ /\ outstanding' = outstanding + 1
          /\ rd_kafka_idemp_set_state("WAIT_PID")
          /\ wrlock' = "none"
          /\ refcnt' = [refcnt EXCEPT ![rkb[t]] = @ - 1]
          /\ rkb' = [rkb EXCEPT ![t] = NULL]
          /\ Return(t, 1, "rp_enqueued")
          /\ UNCHANGED <<pid, request_pid_tmr>>
       \/ /\ ~healthy
          /\ Continue(t, "rp_sendfail")
          /\ UNCHANGED <<eos, request_pid_tmr, wrlock, rkb, refcnt,
                         outstanding>>
    /\ UNCHANGED <<arg_pid, arg_err, woken>>
    /\ UNCHANGED <<env, hist>>

\* Lines 130-144: rd_kafka_InitProducerIdRequest, called with the lock held.
\* It enqueues the request (err = 0) or fails.
rd_kafka_idemp_request_pid_send(t) ==
    /\ pc[t] = "rp_send"
    /\ wrlock = t
    /\ \/ /\ outstanding' = outstanding + 1
          /\ rd_kafka_idemp_set_state("WAIT_PID")
          /\ wrlock' = "none"
          /\ refcnt' = [refcnt EXCEPT ![rkb[t]] = @ - 1]
          /\ rkb' = [rkb EXCEPT ![t] = NULL]
          /\ Return(t, 1, "rp_enqueued")
          /\ UNCHANGED <<pid, request_pid_tmr>>
       \/ /\ ~healthy
          /\ wrlock' = "none"
          /\ Continue(t, "rp_sendfail")
          /\ UNCHANGED <<eos, request_pid_tmr, rkb, refcnt, outstanding>>
    /\ UNCHANGED <<arg_pid, arg_err, woken>>
    /\ UNCHANGED <<env, hist>>

rd_kafka_idemp_request_pid_sendfail_leak(t) ==
    /\ pc[t] = "rp_sendfail"
    /\ rd_kafka_idemp_restart_request_pid_tmr
    /\ rkb' = [rkb EXCEPT ![t] = NULL]
    /\ Return(t, 0, "rp_sendfail")
    /\ UNCHANGED <<eos, wrlock, arg_pid, arg_err, refcnt, outstanding, woken>>
    /\ UNCHANGED <<env, hist>>

rd_kafka_idemp_request_pid_sendfail_no_rearm(t) ==
    /\ pc[t] = "rp_sendfail"
    /\ refcnt' = [refcnt EXCEPT ![rkb[t]] = @ - 1]
    /\ rkb' = [rkb EXCEPT ![t] = NULL]
    /\ Return(t, 0, "rp_sendfail")
    /\ UNCHANGED <<eos, request_pid_tmr, wrlock, arg_pid, arg_err, outstanding,
                   woken>>
    /\ UNCHANGED <<env, hist>>

\* Lines 146-152: the request could not be enqueued.
rd_kafka_idemp_request_pid_sendfail(t) ==
    /\ pc[t] = "rp_sendfail"
    /\ rd_kafka_idemp_restart_request_pid_tmr
    /\ refcnt' = [refcnt EXCEPT ![rkb[t]] = @ - 1]
    /\ rkb' = [rkb EXCEPT ![t] = NULL]
    /\ Return(t, 0, "rp_sendfail")
    /\ UNCHANGED <<eos, wrlock, arg_pid, arg_err, outstanding, woken>>
    /\ UNCHANGED <<env, hist>>

\* The labels of rd_kafka_idemp_request_pid.
RequestPidLabels == {"rp_lock", "rp_nobroker", "rp_send", "rp_sendfail"}

\* Thread t enters request_pid: its call races with the other thread's when
\* that thread is inside request_pid.
EnterRequestPid(t) ==
    raced' = IF idemp_state = "REQ_PID"
                /\ \E u \in Threads \ {t} : pc[u] \in RequestPidLabels
             THEN [u \in Threads |-> TRUE]
             ELSE [raced EXCEPT ![t] = FALSE]

\* The retry timer fires on the main thread: the one-shot timer is no longer
\* scheduled and its callback calls request_pid(rk, NULL, "retry timer").
rd_kafka_idemp_request_pid_tmr_cb ==
    /\ pc["main"] = "idle"
    /\ request_pid_tmr > 0
    /\ request_pid_tmr' = request_pid_tmr - 1
    /\ rkb' = [rkb EXCEPT !["main"] = NULL]
    /\ Call("main", "rp_lock")
    /\ EnterRequestPid("main")
    /\ UNCHANGED <<eos, wrlock, arg_pid, arg_err, refcnt, outstanding, woken>>
    /\ UNCHANGED <<env, term_calls, was_assigned>>

\* An external trigger on thread t calls request_pid with a preferred broker
\* or with none.
ExternalTrigger(t) ==
    /\ pc[t] = "idle"
    /\ idemp_state # "INIT"
    /\ \E b \in Brokers \cup {NULL} : rkb' = [rkb EXCEPT ![t] = b]
    /\ Call(t, "rp_lock")
    /\ EnterRequestPid(t)
    /\ UNCHANGED <<eos, request_pid_tmr, wrlock, arg_pid, arg_err, refcnt,
                   outstanding, woken>>
    /\ UNCHANGED <<env, term_calls, was_assigned>>

----------------------------------------------------------------------------
(* rd_kafka_idemp_request_pid_failed *)

rd_kafka_idemp_request_pid_failed_always ==
    /\ pc["main"] = "rf"
    /\ rd_kafka_idemp_restart_request_pid_tmr
    /\ Return("main", -1, "rf_retry")
    /\ arg_err' = NO_ERROR
    /\ UNCHANGED <<eos, wrlock, rkb, arg_pid, refcnt, outstanding, woken>>
    /\ UNCHANGED <<env, hist>>

\* Lines 192-201: every error but the one of a shutdown restarts the timer.
rd_kafka_idemp_request_pid_failed ==
    /\ pc["main"] = "rf"
    /\ IF arg_err = ERR__DESTROY
       THEN /\ UNCHANGED request_pid_tmr
            /\ Return("main", -1, "rf_ignored")
       ELSE /\ rd_kafka_idemp_restart_request_pid_tmr
            /\ Return("main", -1, "rf_retry")
    /\ arg_err' = NO_ERROR
    /\ UNCHANGED <<eos, wrlock, rkb, arg_pid, refcnt, outstanding, woken>>
    /\ UNCHANGED <<env, hist>>

----------------------------------------------------------------------------
(* rd_kafka_idemp_pid_update *)

PidUpdateExpected_unless_term == idemp_state # "TERM"

\* Line 220: a response is expected only in state WAIT_PID.
PidUpdateExpected == idemp_state = "WAIT_PID"

PidUpdateAccepts_any(p) == TRUE

\* Line 230: only a valid pid is stored.
PidUpdateAccepts(p) == rd_kafka_pid_valid(p)

PidUpdateDiscard_retry ==
    /\ arg_err' = ERR__BAD_MSG
    /\ Continue("main", "rf")
    /\ UNCHANGED <<eos, was_assigned>>

\* Lines 220-228: log, unlock, return.
PidUpdateDiscard ==
    /\ Return("main", -1, "pu_discard")
    /\ UNCHANGED <<eos, arg_err, was_assigned>>

PidUpdateInvalid_silent ==
    /\ Return("main", -1, "pu_invalid")
    /\ UNCHANGED <<eos, arg_err, was_assigned>>

\* Lines 230-238: unlock, warn, call request_pid_failed(rkb, BAD_MSG).
PidUpdateInvalid ==
    /\ arg_err' = ERR__BAD_MSG
    /\ Continue("main", "rf")
    /\ UNCHANGED <<eos, was_assigned>>

PidUpdateStore_pid_only ==
    /\ pid' = arg_pid
    /\ UNCHANGED <<idemp_state, ts_idemp_state>>
    /\ was_assigned' = TRUE
    /\ Continue("main", "pu_wakeup")
    /\ UNCHANGED arg_err

\* Lines 240-252: store the pid, become ASSIGNED, unlock.
PidUpdateStore ==
    /\ pid' = arg_pid
    /\ rd_kafka_idemp_set_state("ASSIGNED")
    /\ was_assigned' = TRUE
    /\ Continue("main", "pu_wakeup")
    /\ UNCHANGED arg_err

\* Lines 219-252.
rd_kafka_idemp_pid_update_lock ==
    /\ pc["main"] = "pu_lock"
    /\ wrlock = "none"
    /\ IF ~PidUpdateExpected THEN PidUpdateDiscard
       ELSE IF ~PidUpdateAccepts(arg_pid) THEN PidUpdateInvalid
       ELSE PidUpdateStore
    /\ arg_pid' = rd_kafka_pid_reset
    /\ UNCHANGED <<request_pid_tmr, wrlock, rkb, refcnt, outstanding, woken,
                   term_calls, raced>>
    /\ UNCHANGED env

rd_kafka_all_brokers_wakeup_any_state ==
    woken' = [b \in Brokers |-> woken[b] + 1]

\* Line 256: rd_kafka_all_brokers_wakeup(rk, RD_KAFKA_BROKER_STATE_UP).
rd_kafka_all_brokers_wakeup ==
    woken' = [b \in Brokers |->
                IF broker_state[b] = "UP" THEN woken[b] + 1 ELSE woken[b]]

rd_kafka_idemp_pid_update_wakeup ==
    /\ pc["main"] = "pu_wakeup"
    /\ rd_kafka_all_brokers_wakeup
    /\ Return("main", -1, "pu_stored")
    /\ UNCHANGED <<eos, request_pid_tmr, wrlock, rkb, arg_pid, arg_err, refcnt,
                   outstanding>>
    /\ UNCHANGED <<env, hist>>

----------------------------------------------------------------------------
(* rd_kafka_idemp_term *)

\* Lines 293-295.
rd_kafka_idemp_term_locked ==
    /\ pc["main"] = "term_lock"
    /\ wrlock = "none"
    /\ rd_kafka_idemp_set_state("TERM")
    /\ UNCHANGED pid
    /\ term_calls' = IF term_calls < 2 THEN term_calls + 1 ELSE term_calls
    /\ Continue("main", "term_tmr_stop")
    /\ UNCHANGED <<request_pid_tmr, wrlock, rkb, arg_pid, arg_err, refcnt,
                   outstanding, woken, was_assigned, raced>>
    /\ UNCHANGED env

\* Line 296.
rd_kafka_idemp_term_tmr_stop ==
    /\ pc["main"] = "term_tmr_stop"
    /\ request_pid_tmr' = rd_kafka_timer_stop(request_pid_tmr)
    /\ Return("main", -1, "term")
    /\ UNCHANGED <<eos, wrlock, rkb, arg_pid, arg_err, refcnt, outstanding,
                   woken>>
    /\ UNCHANGED <<env, hist>>

----------------------------------------------------------------------------
(* Callers of the handlers, on the main thread *)

\* The main thread is between handlers.
MainIdle == pc["main"] = "idle"

\* The client shuts down.
CallTerm ==
    /\ MainIdle
    /\ Call("main", "term_lock")
    /\ UNCHANGED <<eos, request_pid_tmr, wrlock, rkb, arg_pid, arg_err, refcnt,
                   outstanding, woken>>
    /\ UNCHANGED <<env, hist>>

\* Pids a response may carry.
ResponsePids == IF healthy THEN {p \in Pids : p.id >= 0} ELSE Pids

\* The transport answers an outstanding request with a pid.
ResponsePid ==
    /\ MainIdle
    /\ outstanding > 0
    /\ outstanding' = outstanding - 1
    /\ \E p \in ResponsePids : arg_pid' = p
    /\ Call("main", "pu_lock")
    /\ UNCHANGED <<eos, request_pid_tmr, wrlock, rkb, arg_err, refcnt, woken>>
    /\ UNCHANGED <<env, hist>>

\* Errors an outstanding request may be answered with: the error of a
\* shutdown is reported only once the client is terminating.
ResponseErrs == IF term_calls > 0 THEN TransportErrs ELSE {ERR__TRANSPORT}

\* The transport answers an outstanding request with an error.
ResponseErr ==
    /\ MainIdle
    /\ outstanding > 0
    /\ ~healthy
    /\ outstanding' = outstanding - 1
    /\ \E e \in ResponseErrs : arg_err' = e
    /\ Call("main", "rf")
    /\ UNCHANGED <<eos, request_pid_tmr, wrlock, rkb, arg_pid, refcnt, woken>>
    /\ UNCHANGED <<env, hist>>

\* pid_update called for no outstanding request (a stale or repeated response).
StalePid ==
    /\ MainIdle
    /\ idemp_state # "INIT"
    /\ \E p \in Pids : arg_pid' = p
    /\ Call("main", "pu_lock")
    /\ UNCHANGED <<eos, request_pid_tmr, wrlock, rkb, arg_err, refcnt,
                   outstanding, woken>>
    /\ UNCHANGED <<env, hist>>

\* request_pid_failed called for no outstanding request.
StaleErr ==
    /\ MainIdle
    /\ idemp_state # "INIT"
    /\ \E e \in TransportErrs : arg_err' = e
    /\ Call("main", "rf")
    /\ UNCHANGED <<eos, request_pid_tmr, wrlock, rkb, arg_pid, refcnt,
                   outstanding, woken>>
    /\ UNCHANGED <<env, hist>>

----------------------------------------------------------------------------
(* Brokers *)

BrokerUp ==
    /\ \E b \in Brokers :
         /\ broker_state[b] = "DOWN"
         /\ broker_state' = [broker_state EXCEPT ![b] = "UP"]
    /\ UNCHANGED <<eos, request_pid_tmr, wrlock, pc, rkb, ret, arg_pid, arg_err,
                   refcnt, healthy, outstanding, woken, path>>
    /\ UNCHANGED hist

BrokerDown ==
    /\ ~healthy
    /\ \E b \in Brokers :
         /\ broker_state[b] = "UP"
         /\ broker_state' = [broker_state EXCEPT ![b] = "DOWN"]
    /\ UNCHANGED <<eos, request_pid_tmr, wrlock, pc, rkb, ret, arg_pid, arg_err,
                   refcnt, healthy, outstanding, woken, path>>
    /\ UNCHANGED hist

\* From here on a usable broker is always there, enqueuing succeeds and every
\* request is answered with a valid pid.
Recover ==
    /\ ~healthy
    /\ rd_kafka_broker_any_usable # {}
    /\ healthy' = TRUE
    /\ UNCHANGED <<eos, request_pid_tmr, wrlock, pc, rkb, ret, arg_pid, arg_err,
                   refcnt, broker_state, outstanding, woken, path>>
    /\ UNCHANGED hist

----------------------------------------------------------------------------
(* Specifications *)

\* rd_kafka_new() has allocated rk and is about to call rd_kafka_idemp_init;
\* what rk_eos.pid holds before init resets it is not this file's business.
Init ==
    /\ idemp_state = "INIT"
    /\ pid \in Pids
    /\ ts_idemp_state = 0
    /\ request_pid_tmr = 0
    /\ wrlock = "none"
    /\ pc = [t \in Threads |-> IF t = "main" THEN "init_lock" ELSE "idle"]
    /\ rkb = [t \in Threads |-> NULL]
    /\ ret = [t \in Threads |-> -1]
    /\ arg_pid = rd_kafka_pid_reset
    /\ arg_err = NO_ERROR
    /\ refcnt = [b \in Brokers |-> 1]
    /\ broker_state = [b \in Brokers |-> "DOWN"]
    /\ healthy = FALSE
    /\ outstanding = 0
    /\ woken = [b \in Brokers |-> 0]
    /\ path = [t \in Threads |-> "none"]
    /\ term_calls = 0
    /\ was_assigned = FALSE
    /\ raced = [t \in Threads |-> FALSE]

\* The steps of the handlers on the main thread.
MainSteps ==
    \/ rd_kafka_idemp_init_locked
    \/ rd_kafka_idemp_init_tmr
    \/ rd_kafka_idemp_request_pid_lock("main")
    \/ rd_kafka_idemp_request_pid_nobroker("main")
    \/ rd_kafka_idemp_request_pid_send("main")
    \/ rd_kafka_idemp_request_pid_sendfail("main")
    \/ rd_kafka_idemp_request_pid_failed
    \/ rd_kafka_idemp_pid_update_lock
    \/ rd_kafka_idemp_pid_update_wakeup
    \/ rd_kafka_idemp_term_locked
    \/ rd_kafka_idemp_term_tmr_stop

\* What the timer, the callers, the transport and the brokers do when every
\* response answers a request.
StrictCalls ==
    \/ rd_kafka_idemp_request_pid_tmr_cb
    \/ ExternalTrigger("main")
    \/ CallTerm
    \/ ResponsePid
    \/ ResponseErr
    \/ BrokerUp
    \/ BrokerDown
    \/ Recover

Next ==
    \/ MainSteps
    \/ StrictCalls
    \/ StalePid
    \/ StaleErr

\* The handlers under every order of calls, stale responses included.
Spec == Init /\ [][Next]_vars

\* A second caller of rd_kafka_idemp_request_pid, concurrent with the main
\* thread and kept apart from it by the write lock alone.
RacerSteps ==
    \/ ExternalTrigger("racer")
    \/ rd_kafka_idemp_request_pid_lock("racer")
    \/ rd_kafka_idemp_request_pid_nobroker("racer")
    \/ rd_kafka_idemp_request_pid_send("racer")
    \/ rd_kafka_idemp_request_pid_sendfail("racer")

NextRace ==
    \/ MainSteps
    \/ StrictCalls
    \/ RacerSteps

\* Two callers racing on request_pid.
SpecRace == Init /\ [][NextRace]_vars

NextStrict ==
    \/ MainSteps
    \/ StrictCalls

\* The main thread's loop serves its timers and its reply queue on every
\* round: a handler that has begun goes on, a scheduled timer fires, and an
\* outstanding request is answered.
Fairness ==
    /\ WF_vars(MainSteps)
    /\ SF_vars(rd_kafka_idemp_request_pid_tmr_cb)
    /\ SF_vars(ResponsePid \/ ResponseErr)

\* Every response answers a request, under the main loop's scheduling.
SpecLive == Init /\ [][NextStrict]_vars /\ Fairness

----------------------------------------------------------------------------
(* Properties *)

\* Both threads have returned from request_pid calls that raced in REQ_PID.
RaceOver ==
    /\ raced["main"] /\ raced["racer"]
    /\ path["main"] \in {"rp_mismatch", "rp_nobroker", "rp_enqueued", "rp_sendfail"}
    /\ path["racer"] \in {"rp_mismatch", "rp_nobroker", "rp_enqueued", "rp_sendfail"}

\* C1: at most one InitProducerId request is outstanding in every reachable
\* state, also with two callers racing on request_pid in state REQ_PID: the
\* two are never both past the state check and never both return 1: when one
\* enqueues, the other returns 0.  They do not both return 0 on the state
\* check: unless a caller found no broker or could not enqueue, exactly one of
\* them enqueues.
C1_AtMostOneOutstanding ==
    /\ outstanding <= 1
    /\ ~(pc["main"] = "rp_send" /\ pc["racer"] = "rp_send")
    /\ ~(ret["main"] = 1 /\ ret["racer"] = 1)
    /\ RaceOver => /\ ret["main"] \in {0, 1}
                   /\ ret["racer"] \in {0, 1}
                   /\ ret["main"] + ret["racer"] <= 1
                   /\ ~(path["main"] = "rp_mismatch"
                        /\ path["racer"] = "rp_mismatch")

\* C1 as stated: at most one request is outstanding, and of two callers that
\* raced on request_pid in state REQ_PID exactly one enqueued (returned 1) and
\* the other returned 0.
C1_ExactlyOneEnqueues ==
    /\ outstanding <= 1
    /\ RaceOver => ret["main"] + ret["racer"] = 1

\* Two callers raced in state REQ_PID: the racer enqueued the request, and the
\* main thread, which waited for the lock, returned 0.
C1_Witness ==
    /\ RaceOver
    /\ path["racer"] = "rp_enqueued"
    /\ path["main"] = "rp_mismatch"
    /\ ret["main"] = 0
    /\ outstanding = 1
    /\ idemp_state = "WAIT_PID"

\* C2: once the brokers have recovered for good (a usable broker is always
\* there, enqueuing succeeds, every request is answered with a valid pid), the
\* state eventually is ASSIGNED, unless the client terminates.
C2_EventuallyAssigned ==
    healthy ~> (idemp_state = "ASSIGNED" \/ term_calls > 0)

\* C3: in state ASSIGNED the stored pid is valid (id >= 0).
C3_AssignedPidValid == idemp_state = "ASSIGNED" => pid.id >= 0

\* pid_update has just stored a pid and made the state ASSIGNED.
C3_Witness ==
    /\ idemp_state = "ASSIGNED"
    /\ pc["main"] = "pu_wakeup"
    /\ pid.id = MaxId

\* C4: once the state has been ASSIGNED, no step changes the stored pid.
C4_AssignedPidKept == [][was_assigned => pid' = pid]_vars

\* A pid was assigned, the client was then terminated twice, and a response
\* that came after all that was discarded; the pid is still there.
C4_Witness ==
    /\ was_assigned
    /\ term_calls = 2
    /\ path["main"] = "pu_discard"
    /\ MainIdle
    /\ rd_kafka_pid_valid(pid)

\* The edges of the lifecycle graph.
PermittedEdges ==
    {<<"INIT", "REQ_PID">>, <<"REQ_PID", "WAIT_PID">>,
     <<"WAIT_PID", "ASSIGNED">>, <<"WAIT_PID", "REQ_PID">>}
    \cup {<<s, "TERM">> : s \in IdempStates}

\* C5: every change of idemp_state follows an edge of the permitted graph.
C5_PermittedEdges ==
    [][idemp_state' # idemp_state
         => <<idemp_state, idemp_state'>> \in PermittedEdges]_vars

\* The whole chain INIT, REQ_PID, WAIT_PID, ASSIGNED, TERM has been walked.
C5_Witness ==
    /\ idemp_state = "TERM"
    /\ was_assigned
    /\ path["main"] = "term"
    /\ MainIdle

\* C6: once rd_kafka_idemp_term has run, the state is TERM in every later
\* state and rd_kafka_idemp_need_pid reports false; it reports true exactly
\* in REQ_PID and WAIT_PID.
C6_TerminatedAbsorbing ==
    /\ term_calls > 0 => idemp_state = "TERM" /\ ~rd_kafka_idemp_need_pid
    /\ rd_kafka_idemp_need_pid <=> idemp_state \in {"REQ_PID", "WAIT_PID"}

\* After term, the timer fired and its request_pid call returned 0.
C6_Witness ==
    /\ term_calls > 0
    /\ path["main"] = "rp_mismatch"
    /\ MainIdle
    /\ idemp_state = "TERM"
    /\ ~rd_kafka_idemp_need_pid

\* C7: once rd_kafka_idemp_term has run, the retry timer is never pending
\* again (so that its callback never runs again).
C7_NoRetryAfterTerm ==
    (term_calls > 0 /\ pc["main"] # "term_tmr_stop") => request_pid_tmr = 0

\* A step of rd_kafka_idemp_term.
TermStep ==
    /\ pc["main"] \in {"term_lock", "term_tmr_stop"}
    /\ pc'["main"] # pc["main"]

\* C8: a call of rd_kafka_idemp_term leaves the state TERM and the timer
\* stopped, and a call of it in such a state changes neither the state, its
\* timestamp, the stored pid nor the timer: two calls do what one does.
C8_TermIdempotent ==
    /\ [][pc["main"] = "term_tmr_stop" /\ pc'["main"] = "idle"
            => idemp_state' = "TERM" /\ request_pid_tmr' = 0]_vars
    /\ [][TermStep /\ idemp_state = "TERM" /\ request_pid_tmr = 0
            => /\ idemp_state' = "TERM"
               /\ request_pid_tmr' = 0
               /\ pid' = pid
               /\ ts_idemp_state' = ts_idemp_state]_vars

\* rd_kafka_idemp_term has returned from its second call.
C8_Witness ==
    /\ term_calls = 2
    /\ path["main"] = "term"
    /\ MainIdle
    /\ idemp_state = "TERM"
    /\ request_pid_tmr = 0

\* C9: request_pid in a state other than REQ_PID returns 0 at once and changes
\* nothing: no request, no change of state, pid or timestamp, no timer, no
\* broker reference, and the lock is free again.
C9_RequestPidNoop ==
    [][pc["main"] = "rp_lock" /\ pc'["main"] # "rp_lock"
         /\ idemp_state # "REQ_PID"
         => /\ pc'["main"] = "idle"
            /\ ret'["main"] = 0
            /\ wrlock' = "none"
            /\ UNCHANGED <<idemp_state, pid, ts_idemp_state, request_pid_tmr,
                           refcnt, outstanding>>]_vars

\* request_pid was called with a preferred broker in state ASSIGNED and has
\* returned 0.
C9_Witness ==
    /\ idemp_state = "ASSIGNED"
    /\ path["main"] = "rp_mismatch"
    /\ ret["main"] = 0
    /\ MainIdle

\* C10: pid_update in a state other than WAIT_PID discards the response: no
\* change of state, pid or timestamp, no retry, no wakeup, lock free again.
C10_StaleResponseDiscarded ==
    [][pc["main"] = "pu_lock" /\ pc'["main"] # "pu_lock"
         /\ idemp_state # "WAIT_PID"
         => /\ pc'["main"] = "idle"
            /\ wrlock' = "none"
            /\ UNCHANGED <<idemp_state, pid, ts_idemp_state, request_pid_tmr,
                           arg_err, woken, outstanding>>]_vars

\* A response was discarded in state REQ_PID.
C10_Witness ==
    /\ idemp_state = "REQ_PID"
    /\ path["main"] = "pu_discard"
    /\ MainIdle

\* A step that ends the locked section of rd_kafka_idemp_pid_update.
PidUpdateLockedStep == pc["main"] = "pu_lock" /\ pc'["main"] # "pu_lock"

C12_InvalidPidRetried ==
    /\ [][PidUpdateLockedStep /\ idemp_state = "WAIT_PID"
            /\ ~rd_kafka_pid_valid(arg_pid)
            => /\ pc'["main"] = "rf"
               /\ arg_err' = ERR__BAD_MSG
               /\ wrlock' = "none"
               /\ UNCHANGED <<idemp_state, pid, ts_idemp_state, woken,
                              request_pid_tmr>>]_vars
    /\ [][pc["main"] = "rf" /\ arg_err = ERR__BAD_MSG /\ pc'["main"] # "rf"
            => /\ request_pid_tmr' = 1
               /\ idemp_state' # "ASSIGNED"
               /\ pc'["main"] = "idle"
               /\ UNCHANGED <<idemp_state, pid, ts_idemp_state,
                              woken>>]_vars

\* pid_update was given an invalid pid in state WAIT_PID and has called
\* request_pid_failed with the bad-message error.
C12_Witness ==
    /\ pc["main"] = "rf"
    /\ arg_err = ERR__BAD_MSG
    /\ idemp_state = "WAIT_PID"
    /\ ~rd_kafka_pid_valid(pid)
    /\ outstanding = 0
    /\ \A b \in Brokers : woken[b] = 0

\* C13: request_pid_failed changes neither the state nor the stored pid, for
\* every error and in every state; it arms the retry timer when the error is
\* not RD_KAFKA_RESP_ERR__DESTROY and leaves the timer as it is when it is.
C13_FailedKeepsState ==
    [][pc["main"] = "rf" /\ pc'["main"] # "rf"
         => /\ UNCHANGED <<idemp_state, pid, ts_idemp_state>>
            /\ arg_err # ERR__DESTROY => request_pid_tmr' = 1
            /\ arg_err = ERR__DESTROY => request_pid_tmr' = request_pid_tmr]_vars

\* In state TERM one failure armed the timer and a later failure with
\* RD_KAFKA_RESP_ERR__DESTROY was ignored.
C13_Witness ==
    /\ path["main"] = "rf_ignored"
    /\ MainIdle
    /\ idemp_state = "TERM"
    /\ request_pid_tmr = 1

\* C14: init makes the state REQ_PID and arms the retry timer; a request_pid
\* attempt that finds no usable broker or cannot enqueue returns 0 in state
\* REQ_PID with the timer armed again; with a usable broker (or one passed
\* in by the caller) request_pid goes on to the request, and when enqueuing
\* succeeds the state becomes WAIT_PID and 1 is returned.  So once the brokers are usable and enqueuing succeeds,
\* the state REQ_PID is eventually left (for WAIT_PID, or for TERM when the
\* client shuts down), when a scheduled timer eventually fires.
C14_RetryLoop ==
    /\ [][pc["main"] = "init_lock" /\ pc'["main"] # "init_lock"
            => idemp_state' = "REQ_PID" /\ pc'["main"] = "init_tmr"]_vars
    /\ [][pc["main"] = "init_tmr" /\ pc'["main"] # "init_tmr"
            => /\ idemp_state' = "REQ_PID"
               /\ request_pid_tmr' = 1
               /\ pc'["main"] = "idle"]_vars
    /\ [][pc["main"] \in {"rp_nobroker", "rp_sendfail"}
            /\ pc'["main"] # pc["main"]
            => /\ pc'["main"] = "idle"
               /\ ret'["main"] = 0
               /\ idemp_state = "REQ_PID"
               /\ idemp_state' = "REQ_PID"
               /\ request_pid_tmr' = 1]_vars
    /\ [][pc["main"] = "rp_lock" /\ pc'["main"] # "rp_lock"
            /\ idemp_state = "REQ_PID"
            => pc'["main"] = IF rkb["main"] # NULL
                                \/ rd_kafka_broker_any_usable # {}
                             THEN "rp_send" ELSE "rp_nobroker"]_vars
    /\ [][pc["main"] = "rp_send" /\ pc'["main"] # "rp_send"
            => \/ /\ idemp_state' = "WAIT_PID"
                  /\ ret'["main"] = 1
                  /\ pc'["main"] = "idle"
               \/ /\ ~healthy
                  /\ pc'["main"] = "rp_sendfail"]_vars
    /\ (healthy /\ idemp_state = "REQ_PID") ~> idemp_state # "REQ_PID"

\* The brokers are usable, and the request_pid call of the timer (no timer
\* is scheduled any more) has enqueued the request.
C14_Witness ==
    /\ healthy
    /\ idemp_state = "WAIT_PID"
    /\ path["main"] = "rp_enqueued"
    /\ ret["main"] = 1
    /\ MainIdle
    /\ request_pid_tmr = 0
    /\ outstanding = 1

\* C15 as stated, for the snapshots taken once init has set the state: what
\* a reader sees under the shared lock (no writer holds the lock) is ASSIGNED
\* exactly when the pid is valid.
C15_SnapshotBothWays ==
    (wrlock = "none" /\ idemp_state # "INIT")
        => (idemp_state = "ASSIGNED" <=> pid.id >= 0)

\* C15: in every snapshot of (state, pid) a reader can take under the shared
\* lock, state ASSIGNED comes with a valid pid, and the states REQ_PID and
\* WAIT_PID come with the reset pid; once init has set the state, a valid pid
\* comes with state ASSIGNED or, after an assigned client was terminated, with
\* state TERM, which keeps the pid.
C15_SnapshotConsistent ==
    wrlock = "none"
        => /\ idemp_state = "ASSIGNED" => pid.id >= 0
           /\ idemp_state \in {"REQ_PID", "WAIT_PID"}
                => pid = rd_kafka_pid_reset
           /\ (pid.id >= 0 /\ idemp_state # "INIT")
                => /\ idemp_state \in {"ASSIGNED", "TERM"}
                   /\ was_assigned

\* A reader gets the lock inside rd_kafka_idemp_term, between the unlock and
\* the stop of the timer: the state is TERM and the pid is still valid.
C15_Witness ==
    /\ wrlock = "none"
    /\ pc["main"] = "term_tmr_stop"
    /\ idemp_state = "TERM"
    /\ pid.id >= 0

\* C16 as stated: the write lock is not held by the thread that is about to
\* call rd_kafka_InitProducerIdRequest.
C16_LockFreeAtRequest ==
    \A t \in Threads : pc[t] = "rp_send" => wrlock # t

\* C16: the write lock is held by the caller while it calls
\* rd_kafka_InitProducerIdRequest, from the state check to the state change;
\* it is held nowhere else by that thread: not on return, not while the timer
\* is restarted, not while the response is awaited.
C16_LockHeldOnlyAtRequest ==
    /\ \A t \in Threads : wrlock = t <=> pc[t] = "rp_send"
    /\ (outstanding > 0 /\ MainIdle) => wrlock # "main"

\* The main thread is about to call rd_kafka_InitProducerIdRequest on b1 in
\* state REQ_PID, holding the lock and a reference to b1.
C16_Witness ==
    /\ pc["main"] = "rp_send"
    /\ wrlock = "main"
    /\ idemp_state = "REQ_PID"
    /\ rkb["main"] = "b1"
    /\ refcnt["b1"] = 2

\* C17: request_pid is reference-neutral: a broker's reference count is one
\* above its count at entry exactly while a caller holds the broker for the
\* request (passed in and kept, or looked up), and is back at its count at
\* entry on every return: state mismatch, no broker, enqueue failure, success.
C17_ReferenceNeutral ==
    /\ \A b \in Brokers :
         refcnt[b] = 1 + Cardinality({t \in Threads :
                                        /\ pc[t] \in {"rp_send", "rp_sendfail"}
                                        /\ rkb[t] = b})
    /\ \A t \in Threads :
         pc[t] \notin RequestPidLabels => rkb[t] = NULL

\* request_pid could not enqueue and has returned 0; no reference is left.
C17_Witness ==
    /\ path["main"] = "rp_sendfail"
    /\ ret["main"] = 0
    /\ MainIdle
    /\ \A b \in Brokers : refcnt[b] = 1

\* A step in which rd_kafka_idemp_restart_request_pid_tmr is called: by init,
\* by request_pid without a broker or after a failed enqueue, and by
\* request_pid_failed for an error other than RD_KAFKA_RESP_ERR__DESTROY.
RestartTmrStep ==
    \/ /\ pc["main"] \in {"init_tmr", "rp_nobroker", "rp_sendfail"}
       /\ pc'["main"] # pc["main"]
    \/ /\ pc["main"] = "rf"
       /\ arg_err # ERR__DESTROY
       /\ pc'["main"] # "rf"

\* C18 as stated: every call of rd_kafka_idemp_restart_request_pid_tmr happens
\* with no retry timer pending.
C18_NeverArmedWhilePending == [][RestartTmrStep => request_pid_tmr = 0]_vars

\* C18: init arms the retry timer with none pending; the other calls of
\* rd_kafka_idemp_restart_request_pid_tmr (request_pid without a broker or
\* after a failed enqueue, request_pid_failed) may find the timer pending, and
\* after every call exactly one timer is pending; the timer is armed by no
\* other step.
C18_ArmedByRestartOnly ==
    /\ [][pc["main"] = "init_tmr" /\ pc'["main"] # "init_tmr"
            => request_pid_tmr = 0]_vars
    /\ [][RestartTmrStep => request_pid_tmr' = 1]_vars
    /\ [][request_pid_tmr' > request_pid_tmr => RestartTmrStep]_vars

\* request_pid found no usable broker in state REQ_PID and is about to restart
\* the timer, which is pending.
C18_Witness ==
    /\ pc["main"] = "rp_nobroker"
    /\ idemp_state = "REQ_PID"
    /\ request_pid_tmr = 1

\* The retry timer fires.
TmrFires ==
    /\ pc["main"] = "idle"
    /\ pc'["main"] = "rp_lock"
    /\ rkb'["main"] = NULL
    /\ request_pid_tmr' # request_pid_tmr

C20_RequestingHasTimer ==
    (MainIdle /\ idemp_state = "REQ_PID") => request_pid_tmr > 0

\* The timer fired in state REQ_PID, request_pid could not enqueue, and the
\* timer is pending again.
C20_Witness ==
    /\ MainIdle
    /\ idemp_state = "REQ_PID"
    /\ path["main"] = "rp_sendfail"
    /\ request_pid_tmr = 1

====
